---------------------------- MODULE Spec2Model ----------------------------
(***************************************************************************)
(* A model of qsoverlay's circuit Builder (src/qsoverlay/circuit_builder.py)*)
(* and of the composite gate handlers of src/qsoverlay/gate_functions.py.  *)
(*                                                                         *)
(* The builder keeps one clock per qubit (times), a replay log of the      *)
(* top-level gate calls (circuit_list), a logging flag (save_flag) and the *)
(* simulation circuit, of which the model keeps the operation list (gates).*)
(* Every public method is one action; the methods themselves are operators *)
(* over a record b that holds the builder's fields together with the       *)
(* outcome of the call evaluated so far (err, ret) and a trace of the      *)
(* add_gate invocations it made (trace).                                   *)
(*                                                                         *)
(* Python values that can sit in a gate description or in a keyword        *)
(* dictionary are tagged records (Num, Str, Bool, NoneV); dictionaries are *)
(* functions from key strings to such values.  Angles are counted in units *)
(* of pi/2, so that -pi, -pi/2 and pi/2 are integers.  The nominal         *)
(* durations of the binding table are even, so gate_time/2 is an integer.  *)
(***************************************************************************)
EXTENDS Integers, Sequences, FiniteSets, TLC

VARIABLES
    times,          \* Builder.times: qubit -> clock
    circuit_list,   \* Builder.circuit_list: the replay log
    gates,          \* Builder.circuit.gates: operations handed to the engine
    save_flag,      \* Builder.save_flag
    reversed1,      \* the builder returned by make_reverse_circuit, or NoBuilder
    reversed2,      \* the builder returned by reversing reversed1, or NoBuilder
    fresh,          \* a new builder after add_circuit_list(log), or NoBuilder
    last,           \* the last public call: its inputs, outcome and pre-state
    history         \* the calls made on the builder so far, oldest first

vars ==
    <<times, circuit_list, gates, save_flag, reversed1, reversed2, fresh, last,
      history>>

---------------------------------------------------------------------------
(* Bounds of the model.                                                    *)

MaxCalls == 2     \* calls that add gates or finalize, made on one builder
MaxGroup == 2     \* descriptions in a simultaneous group
MaxList == 2      \* items in a list given to add_circuit_list
MaxPad == 1
MaxLines == 2       \* largest t_add given to finalize

---------------------------------------------------------------------------
(* Python values.                                                          *)

\* A value is a record tagged with its Python type; the fields its type does
\* not use are fixed, so two values are equal exactly when tag and payload are.
Num(n) == [t |-> "num", n |-> n, s |-> "", b |-> FALSE, items |-> <<>>]
Str(s) == [t |-> "str", n |-> 0, s |-> s, b |-> FALSE, items |-> <<>>]
Bool(x) == [t |-> "bool", n |-> 0, s |-> "", b |-> x, items |-> <<>>]
NoneV == [t |-> "none", n |-> 0, s |-> "", b |-> FALSE, items |-> <<>>]
\* A type object (bool, int, float) used as a value.
TypeV(s) == [t |-> "type", n |-> 0, s |-> s, b |-> FALSE, items |-> <<>>]
\* A tuple used as a value: a gate description that is a member of a group.
Tup(d) == [t |-> "tuple", n |-> 0, s |-> "", b |-> FALSE, items |-> d]

\* bool(v): the truth value Python gives v in `if v:`.
Truthy(v) ==
    CASE v.t = "num" -> v.n # 0
      [] v.t = "str" -> v.s # ""
      [] v.t = "bool" -> v.b
      [] v.t = "type" -> TRUE
      [] v.t = "tuple" -> v.items # <<>>
      [] OTHER -> FALSE

\* int(v) for a number or a boolean.
IntOf(v) ==
    IF v.t = "bool" THEN (IF v.b THEN 1 ELSE 0) ELSE v.n

\* type(v) is bool
IsBool(v) == v.t = "bool"

\* {**a, **b}: the keys of both, b's value where both have the key.
Merge(a, c) ==
    [k \in (DOMAIN a) \cup (DOMAIN c) |-> IF k \in DOMAIN c THEN c[k] ELSE a[k]]

EmptyDict == [k \in {} |-> NoneV]

Range(f) == {f[i] : i \in DOMAIN f}

MaxOf(S) == CHOOSE x \in S : \A y \in S : y <= x

Max2(x, y) == IF x >= y THEN x ELSE y

\* F applied to the value of x, with x evaluated once.  (TLC evaluates an
\* operator argument or a LET definition anew at every use when it gathers
\* coverage; a bound variable holds a value.)
Bind(x, F(_)) == CHOOSE r \in {F(v) : v \in {x}} : TRUE

\* numpy.pi, in the model's angle unit of pi/2.
Pi == 2

---------------------------------------------------------------------------
(* The configuration handed to Builder.__init__: qubits, gate catalogue    *)
(* and binding table.                                                      *)

qubit_dic ==
    [a |-> [classical |-> FALSE],
     b |-> [classical |-> FALSE],
     c |-> [classical |-> FALSE],
     m |-> [classical |-> TRUE]]

\* gate name -> template.  function names the handler: RotateX is a Gate
\* class of the engine, "rotate_y" a string the engine resolves, the others
\* are the routines of gate_functions.py.
gate_dic ==
    [RX   |-> [function |-> "RotateX", num_qubits |-> 1, user_kws |-> <<"angle">>],
     RY   |-> [function |-> "rotate_y", num_qubits |-> 1, user_kws |-> <<"angle">>],
     CZ   |-> [function |-> "insert_CZ", num_qubits |-> 2, user_kws |-> <<>>],
     X    |-> [function |-> "X_gate", num_qubits |-> 1, user_kws |-> <<>>],
     CNOT |-> [function |-> "CNOT_from_CZ", num_qubits |-> 2, user_kws |-> <<>>],
     SX   |-> [function |-> "RotateX", num_qubits |-> 1, user_kws |-> <<>>],
     Measure |-> [function |-> "Measurement", num_qubits |-> 1,
                  user_kws |-> <<"output_bit">>],
     measure |-> [function |-> "Measurement", num_qubits |-> 1,
                  user_kws |-> <<"output_bit">>]]

\* (gate name, qubits...) -> (circuit_args, builder_args).  The binding of
\* H names a gate the catalogue does not have; the binding of RY on c fixes
\* the angle, a user parameter of RY; the binding of RY on a has an exec_time
\* beyond its gate_time; the binding of RX on m names a classical bit; the
\* binding of SX gives RotateX its angle.
gate_set ==
    (<<"RX", "a">> :> [circuit_args |-> EmptyDict,
                       builder_args |-> [gate_time |-> 2]])
 @@ (<<"RX", "b">> :> [circuit_args |-> EmptyDict,
                       builder_args |-> [gate_time |-> 4, exec_time |-> 1]])
 @@ (<<"RY", "b">> :> [circuit_args |-> EmptyDict,
                       builder_args |-> [gate_time |-> 6]])
 @@ (<<"CZ", "a", "b">> :> [circuit_args |-> [dephase_var |-> Num(0)],
                            builder_args |-> [gate_time |-> 4]])
 @@ (<<"CZ", "b", "c">> :> [circuit_args |-> [dephase_var |-> Num(0),
                                              quasistatic_flux |-> Num(1),
                                              high_frequency |-> Bool(FALSE)],
                            builder_args |-> [gate_time |-> 4]])
 @@ (<<"X", "a">> :> [circuit_args |-> EmptyDict,
                      builder_args |-> [gate_time |-> 2, exec_time |-> 0]])
 @@ (<<"CNOT", "a", "b">> :> [circuit_args |-> EmptyDict,
                              builder_args |-> [gate_time |-> 4]])
 @@ (<<"CNOT", "c", "b">> :> [circuit_args |-> EmptyDict,
                              builder_args |-> [gate_time |-> 4]])
 @@ (<<"H", "a">> :> [circuit_args |-> EmptyDict,
                      builder_args |-> [gate_time |-> 2]])
 @@ (<<"RY", "c">> :> [circuit_args |-> [angle |-> Num(Pi)],
                       builder_args |-> [gate_time |-> 2]])
 @@ (<<"RY", "a">> :> [circuit_args |-> EmptyDict,
                       builder_args |-> [gate_time |-> 2, exec_time |-> 4]])
 @@ (<<"RX", "m">> :> [circuit_args |-> EmptyDict,
                       builder_args |-> [gate_time |-> 2]])
 @@ (<<"SX", "a">> :> [circuit_args |-> [angle |-> Num(Pi \div 2)],
                       builder_args |-> [gate_time |-> 2]])
 @@ (<<"Measure", "a">> :> [circuit_args |-> [sampler |-> NoneV],
                            builder_args |-> [gate_time |-> 4]])

---------------------------------------------------------------------------
(* Builder.__init__ / new_circuit.                                         *)

\* A circuit that gives every declared qubit a clock.
DeclaredQubits == DOMAIN qubit_dic

\* The qubits that get a clock: new_circuit skips classical bits before it
\* reaches `self.times[qubit] = 0`.
ClockedQubits == {q \in DOMAIN qubit_dic : ~qubit_dic[q].classical}

\* `sorted(self.qubit_dic.items())`: the order in which the circuit gets its
\* qubits.
QubitOrder == <<"a", "b", "c", "m">>

\* The fields of a fresh builder, with the bookkeeping of a call not begun.
NewCircuit ==
    [times |-> [q \in ClockedQubits |-> 0],
     circuit_list |-> <<>>,
     gates |-> <<>>,
     save_flag |-> TRUE,
     err |-> "",
     ret |-> 0,
     depth |-> 0,
     trace |-> <<>>]

NoBuilder == [none |-> TRUE]

---------------------------------------------------------------------------
(* The simulation engine (quantumsim.circuit.Circuit), as far as the       *)
(* builder uses it: add_gate appends one operation to circuit.gates.       *)

Op(name, bits, time, angle) ==
    [name |-> name, bits |-> bits, time |-> time, angle |-> angle]

EngineAddGate(b, op) == [b EXCEPT !.gates = Append(@, op)]

Raise(b, e) == [b EXCEPT !.err = e, !.ret = 0]

---------------------------------------------------------------------------
(* Builder.add_gate, step by step.                                         *)

\* `time = max(self.times[qubit] for qubit in qubit_list)`
StartTime(tms, qubit_list) == MaxOf({tms[q] : q \in Range(qubit_list)})

\* A firing time that ignores the binding's exec_time.
FiringTimeCentered(time, builder_args) == time + (builder_args.gate_time \div 2)

\* kwargs['time']: the start plus the binding's exec_time, or, when the
\* binding has none, plus half its gate_time.
FiringTime(time, builder_args) ==
    IF "exec_time" \in DOMAIN builder_args
    THEN time + builder_args.exec_time
    ELSE time + (builder_args.gate_time \div 2)

\* kwargs['bit'] for one qubit, kwargs['bit0'], kwargs['bit1'] for two.
BitKwargs(qubit_list) ==
    IF Len(qubit_list) = 1
    THEN [bit |-> Str(qubit_list[1])]
    ELSE [k \in {"bit0", "bit1"} |->
            IF k = "bit0" THEN Str(qubit_list[1]) ELSE Str(qubit_list[2])]

\* The tuple appended to circuit_list.
LogEntry(gate_name, qubit_list, user_data, return_flag) ==
    LET head == <<Str(gate_name)>> \o [i \in DOMAIN qubit_list |-> Str(qubit_list[i])]
                    \o user_data
    IN  IF return_flag # Bool(FALSE) THEN Append(head, return_flag) ELSE head

\* A clock update that stops at the start of the gate.
UpdateTimesToStart(tms, qubit_list, time, gate_time) ==
    [q \in DOMAIN tms |->
        IF q \in Range(qubit_list) THEN Max2(tms[q], time) ELSE tms[q]]

\* A clock update that counts the duration from the centre of the window.
UpdateTimesFromFiring(tms, qubit_list, time, gate_time) ==
    [q \in DOMAIN tms |->
        IF q \in Range(qubit_list)
        THEN Max2(tms[q], time + (gate_time \div 2) + gate_time) ELSE tms[q]]

\* `self.times[qubit] = max(self.times[qubit], time + gate_time)` for the
\* qubits of the call.
UpdateTimes(tms, qubit_list, time, gate_time) ==
    [q \in DOMAIN tms |->
        IF q \in Range(qubit_list) THEN Max2(tms[q], time + gate_time) ELSE tms[q]]

\* An exit that leaves the flag as the dispatch set it.
KeepFlag(b, prev_flag) == b

\* `self.save_flag = prev_flag`, on the normal path and in the except clause.
RestoreFlag(b, prev_flag) == [b EXCEPT !.save_flag = prev_flag]

\* The 1-based position of circuit.gates[-k] in a list of n operations.
HandleIndex(n, k) == IF k > 0 THEN n - k + 1 ELSE 1 - k

\* `return self.circuit.gates[-int(return_flag)]`
ReturnHandle(b, return_flag) ==
    IF return_flag = Bool(FALSE) THEN [b EXCEPT !.ret = 0]
    ELSE IF return_flag.t \notin {"num", "bool"} THEN Raise(b, "TypeError")
    ELSE LET idx == HandleIndex(Len(b.gates), IntOf(return_flag))
         IN  IF idx \in 1..Len(b.gates) THEN [b EXCEPT !.ret = idx]
             ELSE Raise(b, "IndexError")

\* One entry of b.trace: what one add_gate invocation saw and did.
Event(b0, b1, gate_tuple, explicit, fire) ==
    [kind |-> "add_gate", gate_tuple |-> gate_tuple, depth |-> b0.depth,
     explicit |-> explicit, fire |-> fire,
     timesIn |-> b0.times, timesOut |-> b1.times,
     flagIn |-> b0.save_flag, flagOut |-> b1.save_flag,
     lenIn |-> Len(b0.circuit_list), lenOut |-> Len(b1.circuit_list),
     err |-> b1.err]

Record(b0, result, gate_tuple, explicit, fire) ==
    Bind(result, LAMBDA b1 :
        [b1 EXCEPT !.trace = Append(@, Event(b0, b1, gate_tuple, explicit, fire))])

RECURSIVE add_gate(_, _, _, _, _)
RECURSIVE Lt(_, _)
RECURSIVE RunHandler(_, _)
RECURSIVE add_gates_simultaneous(_, _)

---------------------------------------------------------------------------
(* gate_functions.py: the handlers the catalogue names.                    *)

X_gate(bit, time) == << <<Str("RX"), bit, Num(-Pi), time>> >>

CNOT_from_CZ(bit0, bit1, time) ==
    << <<Str("RY"), bit1, Num(-(Pi \div 2)), time>>,
       <<Str("CZ"), bit0, bit1, time>>,
       <<Str("RY"), bit1, Num(Pi \div 2), time>> >>

\* insert_CZ adds the NoisyCPhase operation and then, when a quasistatic
\* flux is given, refuses a bit0 that is not high-frequency or adds a
\* RotateZ (at time*(1+1e-6), which the model's integer times round to time).
insert_CZ(b, kwargs) ==
    LET b1 == EngineAddGate(b, Op("NoisyCPhase", <<kwargs.bit0.s, kwargs.bit1.s>>,
                                  IntOf(kwargs.time), NoneV))
        flux == IF "quasistatic_flux" \in DOMAIN kwargs
                THEN kwargs.quasistatic_flux ELSE NoneV
        high_frequency == IF "high_frequency" \in DOMAIN kwargs
                          THEN kwargs.high_frequency ELSE NoneV
    IN  IF flux = NoneV THEN b1
        ELSE IF high_frequency = Bool(FALSE) THEN Raise(b1, "ValueError")
        ELSE EngineAddGate(b1, Op("RotateZ", <<kwargs.bit0.s>>,
                                  IntOf(kwargs.time), flux))

\* The body of a composite handler: its `builder < description` statements
\* in order, stopping at the first that raises.
RunHandler(self, descs) ==
    Bind(self, LAMBDA b :
        IF descs = <<>> \/ b.err # "" THEN b
        ELSE RunHandler(Lt(b, Head(descs)), Tail(descs)))

\* Lines 365-373: a string or a Gate class goes to circuit.add_gate, any
\* other handler is called with the builder.  A call whose keywords do not
\* fit the handler's parameters is Python's TypeError.
Dispatch(b, gate, kwargs) ==
    CASE gate \in {"RotateX", "rotate_y"} ->
            IF {"bit", "angle", "time"} \subseteq DOMAIN kwargs
            THEN EngineAddGate(b, Op(gate, <<kwargs.bit.s>>, IntOf(kwargs.time),
                                      kwargs.angle))
            ELSE Raise(b, "TypeError")
      [] gate = "Measurement" ->
            IF {"bit", "time", "sampler"} \subseteq DOMAIN kwargs
               /\ DOMAIN kwargs \subseteq {"bit", "time", "sampler", "output_bit",
                                           "real_output_bit"}
            THEN EngineAddGate(b, Op(gate, <<kwargs.bit.s>>, IntOf(kwargs.time), NoneV))
            ELSE Raise(b, "TypeError")
      [] gate = "insert_CZ" ->
            IF {"bit0", "bit1", "time", "dephase_var"} \subseteq DOMAIN kwargs
               /\ DOMAIN kwargs \subseteq {"bit0", "bit1", "time", "dephase_var",
                                           "quasistatic_flux", "high_frequency"}
            THEN insert_CZ(b, kwargs)
            ELSE Raise(b, "TypeError")
      [] gate = "X_gate" ->
            IF DOMAIN kwargs = {"bit", "time"}
            THEN RunHandler(b, X_gate(kwargs.bit, kwargs.time))
            ELSE Raise(b, "TypeError")
      [] gate = "CNOT_from_CZ" ->
            IF DOMAIN kwargs = {"bit0", "bit1", "time"}
            THEN RunHandler(b, CNOT_from_CZ(kwargs.bit0, kwargs.bit1, kwargs.time))
            ELSE Raise(b, "TypeError")

\* A builder that logs whatever its flag says.
ShouldLogAlways(b) == TRUE

\* `if self.save_flag:`
ShouldLog(b) == b.save_flag

\* A logging step that writes the entry of a gate before it has found the
\* gate in the catalogue.
LogStepBeforeLookup(b, gate_name, qubit_list, return_flag, kwargs) ==
    IF ~b.save_flag THEN b
    ELSE IF gate_name \notin DOMAIN gate_dic
    THEN Raise([b EXCEPT !.circuit_list =
                   Append(@, LogEntry(gate_name, qubit_list, <<>>, return_flag))],
               "KeyError")
    ELSE LET user_kws == gate_dic[gate_name].user_kws
         IN  IF \E i \in DOMAIN user_kws : user_kws[i] \notin DOMAIN kwargs
             THEN Raise(b, "KeyError")
             ELSE [b EXCEPT !.circuit_list =
                     Append(@, LogEntry(gate_name, qubit_list,
                                        [i \in DOMAIN user_kws |-> kwargs[user_kws[i]]],
                                        return_flag))]

\* Lines 340-348: with logging on, read the user parameters out of kwargs
\* and append the entry.
LogStep(b, gate_name, qubit_list, return_flag, kwargs) ==
    IF ~ShouldLog(b) THEN b
    ELSE IF gate_name \notin DOMAIN gate_dic THEN Raise(b, "KeyError")
    ELSE LET user_kws == gate_dic[gate_name].user_kws
         IN  IF \E i \in DOMAIN user_kws : user_kws[i] \notin DOMAIN kwargs
             THEN Raise(b, "KeyError")
             ELSE [b EXCEPT !.circuit_list =
                     Append(@, LogEntry(gate_name, qubit_list,
                                        [i \in DOMAIN user_kws |-> kwargs[user_kws[i]]],
                                        return_flag))]

\* A dispatch that takes the entry of a gate out of the log when the
\* handler of the gate raises.
GuardedDispatchUndoLog(b, gate_name, kwargs) ==
    LET prev_flag == b.save_flag
        inner == Dispatch([b EXCEPT !.save_flag = FALSE, !.depth = @ + 1],
                          gate_dic[gate_name].function, kwargs)
        exit == RestoreFlag([inner EXCEPT !.depth = b.depth], prev_flag)
    IN  IF exit.err # "" /\ prev_flag /\ exit.circuit_list # <<>>
        THEN [exit EXCEPT !.circuit_list = SubSeq(@, 1, Len(@) - 1)]
        ELSE exit

\* Lines 362-378: dispatch with logging off, the flag put back either way.
GuardedDispatch(b, gate_name, kwargs) ==
    LET prev_flag == b.save_flag
        inner == Dispatch([b EXCEPT !.save_flag = FALSE, !.depth = @ + 1],
                          gate_dic[gate_name].function, kwargs)
    IN  RestoreFlag([inner EXCEPT !.depth = b.depth], prev_flag)

add_gate(self, gate_name, qubit_list, return_flag, user_kwargs) ==
    Bind(self, LAMBDA b :
    LET gate_tuple == <<gate_name>> \o qubit_list
        explicit == "time" \in DOMAIN user_kwargs
    IN
    IF gate_tuple \notin DOMAIN gate_set
    THEN Record(b, Raise(b, "KeyError"), gate_tuple, explicit, -1)
    ELSE
    LET circuit_args == gate_set[gate_tuple].circuit_args
        builder_args == gate_set[gate_tuple].builder_args
        kwargs0 == Merge(circuit_args, user_kwargs)
        gate_time == builder_args.gate_time
        time_flag == "time" \in DOMAIN kwargs0
    IN
    IF ~time_flag /\ ~(Range(qubit_list) \subseteq DOMAIN b.times)
    THEN Record(b, Raise(b, "KeyError"), gate_tuple, time_flag, -1)
    ELSE
    LET time == IF time_flag THEN 0 ELSE StartTime(b.times, qubit_list)
        kwargs1 == IF time_flag THEN kwargs0
                   ELSE Merge(kwargs0, [time |-> Num(FiringTime(time, builder_args))])
        kwargs == Merge(kwargs1, BitKwargs(qubit_list))
        fire == IntOf(kwargs.time)
    IN
    Bind(LogStep(b, gate_name, qubit_list, return_flag, kwargs), LAMBDA logged :
    IF logged.err # "" THEN Record(b, logged, gate_tuple, time_flag, fire)
    ELSE IF gate_name \notin DOMAIN gate_dic
    THEN Record(b, Raise(logged, "KeyError"), gate_tuple, time_flag, fire)
    ELSE
    Bind(GuardedDispatch(logged, gate_name, kwargs), LAMBDA done :
    IF done.err # "" THEN Record(b, done, gate_tuple, time_flag, fire)
    ELSE
    LET timed == IF time_flag THEN done
                 ELSE [done EXCEPT !.times =
                          UpdateTimes(@, qubit_list, time, gate_time)]
    IN  Record(b, ReturnHandle(timed, return_flag), gate_tuple, time_flag, fire))))

---------------------------------------------------------------------------
(* Builder.__lt__: `builder < gate_desc`.                                  *)

\* The trailing fields of a description of n fields for a gate with
\* num_qubits qubits and the user parameters user_kws (lines 233-246).
\* With two trailing fields the asserts compare the fields with the type
\* objects bool, float and int.
Trailing(gate_desc, num_qubits, user_kws) ==
    LET n == Len(gate_desc)
        base == Len(user_kws) + num_qubits
    IN  CASE n = base + 2 ->
                IF IsBool(gate_desc[n])
                THEN [ok |-> TRUE, return_flag |-> gate_desc[n], time |-> NoneV]
                ELSE [ok |-> TRUE, return_flag |-> Bool(FALSE), time |-> gate_desc[n]]
          [] n = base + 3 ->
                IF gate_desc[n] = TypeV("bool")
                   /\ gate_desc[n - 1] \in {TypeV("float"), TypeV("int")}
                THEN [ok |-> TRUE, return_flag |-> gate_desc[n], time |-> gate_desc[n - 1]]
                ELSE [ok |-> FALSE, return_flag |-> Bool(FALSE), time |-> NoneV]
          [] n = base + 1 ->
                [ok |-> TRUE, return_flag |-> Bool(FALSE), time |-> NoneV]
          [] OTHER ->
                [ok |-> FALSE, return_flag |-> Bool(FALSE), time |-> NoneV]

\* `{kw: arg for kw, arg in zip(user_kws, gate_desc[num_qubits+1:])}`, with
\* kwargs['time'] added `if time:`.
DescKwargs(gate_desc, num_qubits, user_kws, time) ==
    LET params == [k \in Range(user_kws) |->
                     gate_desc[num_qubits + 1
                               + (CHOOSE i \in DOMAIN user_kws : user_kws[i] = k)]]
    IN  IF Truthy(time) THEN Merge(params, [time |-> time]) ELSE params

Lt(b, gate_desc) ==
    IF gate_desc[1].t # "str" THEN add_gates_simultaneous(b, gate_desc)
    ELSE
    LET gate_name == gate_desc[1].s IN
    IF gate_name \notin DOMAIN gate_dic THEN Raise(b, "KeyError")
    ELSE
    LET num_qubits == gate_dic[gate_name].num_qubits
        user_kws == gate_dic[gate_name].user_kws
        tr == Trailing(gate_desc, num_qubits, user_kws)
    IN
    IF ~tr.ok THEN Raise(b, "AssertionError")
    ELSE add_gate(b, gate_name,
                  [i \in 1..num_qubits |-> gate_desc[i + 1].s],
                  tr.return_flag,
                  DescKwargs(gate_desc, num_qubits, user_kws, tr.time))

---------------------------------------------------------------------------
(* Builder.add_gates_simultaneous and Builder.add_circuit_list.            *)

\* The qubits named by the descriptions of a group (fields 1..num_qubits).
GroupQubits(descs) ==
    UNION {{descs[i][j + 1].s : j \in 1..gate_dic[descs[i][1].s].num_qubits}
           : i \in DOMAIN descs}

\* A starting time that is the smallest clock of the group.
StartingTimeMin(tms, descs) ==
    CHOOSE t \in {tms[q] : q \in GroupQubits(descs)} :
        \A q \in GroupQubits(descs) : t <= tms[q]

\* Lines 263-266: the largest clock among the group's qubits.
StartingTime(tms, descs) == MaxOf({tms[q] : q \in GroupQubits(descs)})

\* A group whose qubits keep their clocks.
KeepGroupTimes(tms, descs, starting_time) == tms

\* Lines 268-272: every qubit of the group gets the starting time.
SetGroupTimes(tms, descs, starting_time) ==
    [q \in DOMAIN tms |-> IF q \in GroupQubits(descs) THEN starting_time ELSE tms[q]]

SyncEvent(b0, b1) ==
    [kind |-> "sync", gate_tuple |-> <<>>, depth |-> b0.depth,
     explicit |-> FALSE, fire |-> -1,
     timesIn |-> b0.times, timesOut |-> b1.times,
     flagIn |-> b0.save_flag, flagOut |-> b1.save_flag,
     lenIn |-> Len(b0.circuit_list), lenOut |-> Len(b1.circuit_list),
     err |-> b1.err]

\* The group's members are dispatched by `gate_desc > self`, which Python
\* resolves to Builder.__lt__; the method returns nothing.
add_gates_simultaneous(self, group) ==
    Bind(self, LAMBDA b :
    LET descs == [i \in DOMAIN group |-> group[i].items] IN
    IF \E i \in DOMAIN descs :
          \/ descs[i] = <<>>
          \/ descs[i][1].t # "str"
          \/ descs[i][1].s \notin DOMAIN gate_dic
          \/ Len(descs[i]) < gate_dic[descs[i][1].s].num_qubits + 1
    THEN Raise(b, "LookupError")
    ELSE IF ~(GroupQubits(descs) \subseteq DOMAIN b.times) THEN Raise(b, "KeyError")
    ELSE IF descs = <<>> THEN Raise(b, "ValueError")
    ELSE
    LET synced == [b EXCEPT !.times = SetGroupTimes(@, descs, StartingTime(b.times, descs))]
        marked == [synced EXCEPT !.trace = Append(@, SyncEvent(b, synced))]
    IN  [RunHandler(marked, descs) EXCEPT !.ret = 0])

RECURSIVE add_circuit_list(_, _, _)
\* adjustable_gates collects the results that are truthy; an operation
\* handle is, None is not.
add_circuit_list(b, circuit, adjustable_gates) ==
    IF circuit = <<>> THEN [b EXCEPT !.ret = adjustable_gates]
    ELSE Bind(Lt(b, Head(circuit)), LAMBDA b1 :
         IF b1.err # "" THEN b1
         ELSE add_circuit_list(b1, Tail(circuit),
                               IF b1.ret # 0 THEN Append(adjustable_gates, b1.ret)
                               ELSE adjustable_gates))

---------------------------------------------------------------------------
(* Builder.add_qasm.  A line is a sequence of characters (one-character    *)
(* strings).                                                               *)

RECURSIVE Join(_)
\* The string of a sequence of characters.
Join(chars) == IF chars = <<>> THEN "" ELSE Head(chars) \o Join(Tail(chars))

\* line[lo:hi] for 0 <= lo.
Slice(line, lo, hi) == SubSeq(line, lo + 1, hi)

\* `[i for i, x in enumerate(line) if x == ',' or x == ' ']`, with
\* len(line) appended.
Spaces(line) ==
    SelectSeq([i \in 1..Len(line) |-> i - 1], LAMBDA i : line[i + 1] \in {",", " "})
        \o <<Len(line)>>

\* spaces[n] and spaces[n+1] exist (n counted from 0).
HasToken(spaces, n) == n >= 0 /\ n + 2 <= Len(spaces)

\* line[spaces[n]+1:spaces[n+1]]
Token(line, spaces, n) == Slice(line, spaces[n + 1] + 1, spaces[n + 2])

DigitValue ==
    ("0" :> 0) @@ ("1" :> 1) @@ ("2" :> 2) @@ ("3" :> 3) @@ ("4" :> 4)
    @@ ("5" :> 5) @@ ("6" :> 6) @@ ("7" :> 7) @@ ("8" :> 8) @@ ("9" :> 9)

RECURSIVE DigitsValue(_, _)
DigitsValue(chars, acc) ==
    IF chars = <<>> THEN acc
    ELSE DigitsValue(Tail(chars), 10 * acc + DigitValue[Head(chars)])

\* float(token) for a token of digits, signs and letters other than those of
\* inf, nan and exponents: the number of an optionally signed string of
\* digits; any other token makes float raise, and the token stays a string.
Coerced(chars) ==
    LET signed == chars # <<>> /\ chars[1] \in {"-", "+"}
        digits == IF signed THEN Tail(chars) ELSE chars
    IN  IF digits # <<>> /\ \A i \in DOMAIN digits : digits[i] \in DOMAIN DigitValue
        THEN Num(IF signed /\ chars[1] = "-" THEN -DigitsValue(digits, 0)
                 ELSE DigitsValue(digits, 0))
        ELSE Str(Join(chars))

\* Lines 157-163: the line 'measure q -> c' becomes add_gate('Measure', [q],
\* output_bit=[c]); the defaults are not passed.
MeasureLine(b, line, spaces) ==
    IF ~HasToken(spaces, 2) THEN Raise(b, "IndexError")
    ELSE add_gate(b, "Measure", <<Join(Token(line, spaces, 0))>>, Bool(FALSE),
                  [output_bit |-> Tup(<<Str(Join(Token(line, spaces, 2)))>>)])

\* Lines 165-191: the qubits are the tokens first..first+num_qubits-1, the
\* values of user_kws the tokens kw_first.. (tokens counted from 0 after the
\* gate name).
GateLine(b, line, spaces, gate_name, first, kw_first, params) ==
    LET num_qubits == gate_dic[gate_name].num_qubits
        user_kws == gate_dic[gate_name].user_kws
    IN  IF \E n \in 0..(num_qubits - 1) : ~HasToken(spaces, first + n)
        THEN Raise(b, "IndexError")
        ELSE IF \E n \in 0..(Len(user_kws) - 1) : ~HasToken(spaces, kw_first + n)
        THEN Raise(b, "IndexError")
        ELSE add_gate(b, gate_name,
                      [j \in 1..num_qubits |-> Join(Token(line, spaces, first + j - 1))],
                      Bool(FALSE),
                      Merge(params,
                            [kw \in Range(user_kws) |->
                                Coerced(Token(line, spaces,
                                    kw_first - 1
                                    + (CHOOSE n \in DOMAIN user_kws : user_kws[n] = kw)))]))

\* A line read qubits first whatever the caller asked for.
QasmLineQubitsFirst(b, line, qubits_first, params) ==
    LET spaces == Spaces(line)
        gate_name == Join(Slice(line, 0, spaces[1]))
    IN  IF gate_name \notin DOMAIN gate_dic THEN Raise(b, "KeyError")
        ELSE IF gate_name = "measure" THEN MeasureLine(b, line, spaces)
        ELSE GateLine(b, line, spaces, gate_name,
                      0, gate_dic[gate_name].num_qubits, params)

\* One line of add_qasm.
QasmLine(b, line, qubits_first, params) ==
    LET spaces == Spaces(line)
        gate_name == Join(Slice(line, 0, spaces[1]))
    IN  IF gate_name \notin DOMAIN gate_dic THEN Raise(b, "KeyError")
        ELSE IF gate_name = "measure" THEN MeasureLine(b, line, spaces)
        ELSE IF qubits_first
        THEN GateLine(b, line, spaces, gate_name,
                      0, gate_dic[gate_name].num_qubits, params)
        ELSE GateLine(b, line, spaces, gate_name,
                      Len(gate_dic[gate_name].user_kws), 0, params)

RECURSIVE add_qasm(_, _, _, _)
\* The lines are added in order and the first failure is raised again.
\* add_gate is called without return_flag and returns None, so the list of
\* returned gates stays empty.
add_qasm(self, qasm_generator, qubits_first, params) ==
    Bind(self, LAMBDA b :
        IF qasm_generator = <<>> THEN [b EXCEPT !.ret = <<>>]
        ELSE Bind(QasmLine(b, Head(qasm_generator), qubits_first, params), LAMBDA b1 :
             IF b1.err # "" THEN b1
             ELSE add_qasm(b1, Tail(qasm_generator), qubits_first, params)))

---------------------------------------------------------------------------
(* Builder.finalize.                                                       *)

\* `max(self.times.values())`, plus t_add.
CircuitTime(tms, t_add) == MaxOf(Range(tms)) + t_add

\* The engine's add_waiting_gates(tmin, tmax).  Which idle operations it
\* inserts is the engine's business (it depends on the qubits' t1, t2 and
\* on the gaps between their gates): idle names the outcome, no idle
\* operation at all or one per clocked qubit, at either end of the range.
\* The operations are appended to circuit.gates in qubit order.
WaitingGates(tmin, tmax, idle) ==
    LET at == IF idle = "start" THEN tmin ELSE tmax
        clocked == SelectSeq(QubitOrder, LAMBDA q : q \in ClockedQubits)
    IN  IF idle = "none" THEN <<>>
        ELSE [i \in DOMAIN clocked |-> Op("idle", <<clocked[i]>>, at, NoneV)]

\* Insert op into a list sorted by time, after the operations of equal time.
InsertByTime(sorted, op) ==
    LET k == Cardinality({i \in DOMAIN sorted : sorted[i].time <= op.time})
    IN  SubSeq(sorted, 1, k) \o <<op>> \o SubSeq(sorted, k + 1, Len(sorted))

\* An operation list left in the order of insertion.
Unsorted(ops) == ops

RECURSIVE SortedByTime(_)
\* `sorted(self.circuit.gates, key=lambda x: x.time)`: a stable sort.
SortedByTime(ops) ==
    IF ops = <<>> THEN <<>>
    ELSE InsertByTime(SortedByTime(SubSeq(ops, 1, Len(ops) - 1)), ops[Len(ops)])

\* finalize(topo_order=False, t_add=t_add) for a number t_add.
finalize(b, t_add, idle) ==
    LET circuit_time == CircuitTime(b.times, t_add)
        waited == b.gates \o WaitingGates(0, circuit_time, idle)
    IN  [b EXCEPT !.gates = SortedByTime(waited), !.ret = 0]

---------------------------------------------------------------------------
(* Builder.make_reverse_circuit.                                           *)

\* `list(reversed(self.circuit_list))`
Reversed(seq) == [i \in DOMAIN seq |-> seq[Len(seq) + 1 - i]]

\* `x *= -1` for a value of a description.
Negated(v) ==
    CASE v.t \in {"num", "bool"} -> Num(-IntOf(v))
      [] v.t = "str" -> Str("")
      [] OTHER -> v

\* Lines 110-119: the entry of a gate with an 'angle' parameter gets the
\* field at num_qubits + 1 + angle_index negated.
ReverseEntry(gate_desc) ==
    LET gate_name == gate_desc[1].s
        num_qubits == gate_dic[gate_name].num_qubits
        user_kws == gate_dic[gate_name].user_kws
    IN  IF "angle" \in Range(user_kws)
        THEN LET angle_index == (CHOOSE i \in DOMAIN user_kws : user_kws[i] = "angle") - 1
             IN  [gate_desc EXCEPT ![num_qubits + 1 + angle_index + 1] = Negated(@)]
        ELSE gate_desc

ReversedCircuitList(log) ==
    LET r == Reversed(log) IN [i \in DOMAIN r |-> ReverseEntry(r[i])]

\* The builder make_reverse_circuit returns: a new Builder over the same
\* configuration, the reversed list added to it, finalized on request.  When
\* adding the list raises, the error leaves make_reverse_circuit and err says so.
make_reverse_circuit(log, fin, idle) ==
    Bind(add_circuit_list(NewCircuit, ReversedCircuitList(log), <<>>), LAMBDA replayed :
        IF replayed.err # "" THEN replayed
        ELSE IF fin THEN finalize(replayed, 0, idle)
        ELSE replayed)

---------------------------------------------------------------------------
(* The inputs the calls are made with.                                     *)

ExplicitTimes == {0, 3}
ReturnFlags == {Bool(FALSE), Bool(TRUE), Num(2)}
Idles == {"none", "start", "end"}

\* The combinations that are only written as lines of text.
ImportedTuples == {<<"SX", "a">>, <<"Measure", "a">>}

\* The gate/qubit combinations called: the bound ones that are not only
\* imported, and an unbound one.
CallTuples == ((DOMAIN gate_set) \ ImportedTuples) \cup {<<"RX", "c">>}

\* The combinations that are also called with an explicit time or with a
\* return flag: a primitive gate and a composite one.
OptionTuples == {<<"RX", "a">>, <<"CNOT", "a", "b">>}

\* The user parameters of a call of gate_name: a value for each user_kw (an
\* angle of pi/2).
UserParams(gate_name) ==
    IF gate_name \notin DOMAIN gate_dic \/ gate_dic[gate_name].user_kws = <<>>
    THEN EmptyDict ELSE [angle |-> Num(Pi \div 2)]

\* The bindings whose circuit_args hold every user parameter of their gate.
FixedBindings ==
    {gate_tuple \in DOMAIN gate_set :
        /\ gate_tuple[1] \in DOMAIN gate_dic
        /\ gate_dic[gate_tuple[1]].user_kws # <<>>
        /\ Range(gate_dic[gate_tuple[1]].user_kws)
               \subseteq DOMAIN gate_set[gate_tuple].circuit_args}

\* The keyword arguments of an add_gate call: the user parameters, with or
\* without an explicit time; a gate whose binding fixes the parameters is
\* also called without them.
UserKwargs(gate_tuple) ==
    {UserParams(gate_tuple[1])}
    \cup (IF gate_tuple \in FixedBindings THEN {EmptyDict} ELSE {})
    \cup {Merge(UserParams(gate_tuple[1]), [time |-> Num(x)]) :
            x \in IF gate_tuple \in OptionTuples THEN ExplicitTimes ELSE {}}

FlagsFor(gate_tuple) ==
    IF gate_tuple \in OptionTuples THEN ReturnFlags ELSE {Bool(FALSE)}

\* The description (gate, qubits..., parameters...) of a call.
Desc(gate_tuple) ==
    LET gate_name == gate_tuple[1]
        user_kws == gate_dic[gate_name].user_kws
    IN  [i \in DOMAIN gate_tuple |-> Str(gate_tuple[i])]
            \o [i \in DOMAIN user_kws |-> UserParams(gate_name)[user_kws[i]]]

\* Sequences of 1..n elements of S.
SeqsUpTo(S, n) == UNION {[1..k -> S] : k \in 1..n}

\* Descriptions given to `builder < description`: with one trailing field (a
\* time or a return flag) and with two (a time and a return flag).
LtDescs ==
    LET rx == Desc(<<"RX", "a">>)
    IN  {Append(rx, v) : v \in {Num(x) : x \in ExplicitTimes} \cup {Bool(TRUE), Bool(FALSE)}}
        \cup {rx \o <<Num(3), Bool(TRUE)>>}

\* Groups given to add_gates_simultaneous: of gates on qubits and of a gate
\* on the classical bit.
GroupTuples == {<<"RX", "a">>, <<"RY", "b">>, <<"RX", "m">>}
Groups == SeqsUpTo({Tup(Desc(gt)) : gt \in GroupTuples}, MaxGroup)

\* Lists given to add_circuit_list: a description with a return flag and a
\* group one of whose members has one.
ListItems ==
    {Append(Desc(<<"RX", "a">>), Bool(TRUE)),
     <<Tup(Desc(<<"RX", "a">>)), Tup(Append(Desc(<<"RY", "b">>), Bool(TRUE)))>>}
Lists == SeqsUpTo(ListItems, MaxList)

\* The gate/qubit combinations written as lines of text: a composite gate,
\* a gate with a parameter, a two-qubit gate, an unbound combination and a
\* gate the catalogue does not have.
QasmTuples ==
    {<<"X", "a">>, <<"RX", "a">>, <<"CNOT", "a", "b">>, <<"RX", "c">>, <<"H", "a">>}

\* The characters of the words lines are made of.
Chars ==
    ("X" :> <<"X">>) @@ ("RX" :> <<"R", "X">>) @@ ("CNOT" :> <<"C", "N", "O", "T">>)
    @@ ("H" :> <<"H">>) @@ ("a" :> <<"a">>) @@ ("b" :> <<"b">>) @@ ("c" :> <<"c">>)
    @@ ("SX" :> <<"S", "X">>) @@ ("measure" :> <<"m", "e", "a", "s", "u", "r", "e">>)

\* Parameter tokens, each with the value it stands for: two numbers and a
\* symbol.
ParamTokens ==
    {[chars |-> <<"1">>, value |-> Num(1)],
     [chars |-> <<"-", "1", "2">>, value |-> Num(-12)],
     [chars |-> <<"x">>, value |-> Str("x")]}

\* One token for each user parameter of the gate.
TokensFor(gate_name) ==
    IF gate_name \in DOMAIN gate_dic
    THEN [DOMAIN gate_dic[gate_name].user_kws -> ParamTokens]
    ELSE {<<>>}

RECURSIVE Joined(_, _)
\* The words, each preceded by the separator.
Joined(words, sep) ==
    IF words = <<>> THEN <<>> ELSE <<sep>> \o Head(words) \o Joined(Tail(words), sep)

\* The line of a gate: its name, then its qubits and its parameter tokens in
\* the order asked for, separated by sep.
TextLine(gate_tuple, tokens, sep, qubits_first) ==
    LET qubits == [i \in 1..(Len(gate_tuple) - 1) |-> Chars[gate_tuple[i + 1]]]
        values == [i \in DOMAIN tokens |-> tokens[i].chars]
    IN  Chars[gate_tuple[1]]
        \o Joined(IF qubits_first THEN qubits \o values ELSE values \o qubits, sep)

\* The lines of the files imported with defaults, each with the call its
\* words describe: a gate with a parameter, a gate whose binding supplies
\* the parameter of its handler, a composite gate, and the reserved form
\* 'measure a -> m'.
FileLines(sep, qubits_first) ==
    {[line |-> TextLine(<<"RX", "a">>, <<[chars |-> <<"1">>]>>, sep, qubits_first),
      gate_name |-> "RX", qubit_list |-> <<"a">>, values |-> [angle |-> Num(1)]],
     [line |-> TextLine(<<"SX", "a">>, <<>>, sep, qubits_first),
      gate_name |-> "SX", qubit_list |-> <<"a">>, values |-> EmptyDict],
     [line |-> TextLine(<<"X", "a">>, <<>>, sep, qubits_first),
      gate_name |-> "X", qubit_list |-> <<"a">>, values |-> EmptyDict],
     [line |-> TextLine(<<"measure", "a">>,
                        <<[chars |-> <<"-", ">">>], [chars |-> <<"m">>]>>, sep, TRUE),
      gate_name |-> "Measure", qubit_list |-> <<"a">>,
      values |-> [output_bit |-> Tup(<<Str("m")>>)]]}

\* Files of 1..MaxLines lines.
Files(sep, qubits_first) == SeqsUpTo(FileLines(sep, qubits_first), MaxLines)

\* The defaults given to add_qasm as **params: none, an explicit time, an
\* angle.
Defaults == {EmptyDict, [time |-> Num(3)], [angle |-> Num(3)]}

---------------------------------------------------------------------------
(* The state machine: one action per public method of Builder.             *)

\* The builder the calls are made on, as the record the methods work on.
Self ==
    [times |-> times, circuit_list |-> circuit_list, gates |-> gates,
     save_flag |-> save_flag, err |-> "", ret |-> 0, depth |-> 0, trace |-> <<>>]

Fields(b) ==
    [times |-> b.times, circuit_list |-> b.circuit_list, gates |-> b.gates,
     save_flag |-> b.save_flag]

NoCall ==
    [op |-> "init", args |-> <<>>, pre |-> Fields(NewCircuit),
     err |-> "", ret |-> 0, trace |-> <<>>]

\* The add_gate invocations of a call that were not made from inside a handler.
TopLevelCalls(trace) ==
    Cardinality({i \in DOMAIN trace : trace[i].kind = "add_gate" /\ trace[i].depth = 0})

\* kwargs['time'] of the add_gate invocation that returned last, when it
\* was made from outside a handler; -1 when there is none, or when it got to
\* no firing time.
TopLevelFire(trace) ==
    IF /\ trace # <<>>
       /\ trace[Len(trace)].kind = "add_gate"
       /\ trace[Len(trace)].depth = 0
    THEN trace[Len(trace)].fire ELSE -1

Init ==
    /\ times = NewCircuit.times
    /\ circuit_list = NewCircuit.circuit_list
    /\ gates = NewCircuit.gates
    /\ save_flag = NewCircuit.save_flag
    /\ reversed1 = NoBuilder
    /\ reversed2 = NoBuilder
    /\ fresh = NoBuilder
    /\ last = NoCall
    /\ history = <<>>

\* The call op(args) has left the builder as r says.  (The actions bound the
\* number of calls before they evaluate the call.)
Apply(op, args, r) ==
    /\ times' = r.times
    /\ circuit_list' = r.circuit_list
    /\ gates' = r.gates
    /\ save_flag' = r.save_flag
    /\ last' = [op |-> op, args |-> args, pre |-> Fields(Self),
                err |-> r.err, ret |-> r.ret, trace |-> r.trace]
    /\ history' = Append(history, [op |-> op, args |-> args, err |-> r.err,
                                    top |-> TopLevelCalls(r.trace),
                                    fire |-> TopLevelFire(r.trace)])
    /\ UNCHANGED <<reversed1, reversed2, fresh>>

AddGate ==
    /\ Len(history) < MaxCalls
    /\ \E gate_tuple \in CallTuples :
       \E return_flag \in FlagsFor(gate_tuple), kwargs \in UserKwargs(gate_tuple) :
       \E r \in {add_gate(Self, gate_tuple[1], Tail(gate_tuple), return_flag, kwargs)} :
        Apply("add_gate",
              [gate_tuple |-> gate_tuple, return_flag |-> return_flag, kwargs |-> kwargs],
              r)

LtCall ==
    /\ Len(history) < MaxCalls
    /\ \E gate_desc \in LtDescs :
       \E r \in {Lt(Self, gate_desc)} :
        Apply("lt", [gate_desc |-> gate_desc], r)

AddGatesSimultaneous ==
    /\ Len(history) < MaxCalls
    /\ \E group \in Groups :
       \E r \in {add_gates_simultaneous(Self, group)} :
        Apply("add_gates_simultaneous", [group |-> group], r)

AddCircuitList ==
    /\ Len(history) < MaxCalls
    /\ \E circuit \in Lists :
       \E r \in {add_circuit_list(Self, circuit, <<>>)} :
        Apply("add_circuit_list", [circuit |-> circuit], r)

Finalize ==
    /\ Len(history) < MaxCalls
    /\ \E t_add \in 0..MaxPad, idle \in Idles :
       \E r \in {finalize(Self, t_add, idle)} :
        Apply("finalize", [t_add |-> t_add, idle |-> idle], r)

\* reversed1 = builder.make_reverse_circuit(finalize=fin); the builder
\* itself is left as it is.  of is the log that was reversed.
MakeReverse ==
    /\ reversed1 = NoBuilder
    /\ \E fin \in BOOLEAN, idle \in Idles :
      \E r \in {make_reverse_circuit(circuit_list, fin, idle)} :
        /\ reversed1' = IF r.err = "" THEN Fields(r) @@ [of |-> circuit_list]
                        ELSE reversed1
        /\ last' = [op |-> "make_reverse_circuit", args |-> [fin |-> fin, idle |-> idle],
                    pre |-> Fields(Self), err |-> r.err, ret |-> 0, trace |-> r.trace]
        /\ UNCHANGED <<times, circuit_list, gates, save_flag, reversed2, fresh,
                       history>>

\* reversed2 = reversed1.make_reverse_circuit(finalize=fin).
ReverseAgain ==
    /\ reversed1 # NoBuilder
    /\ reversed2 = NoBuilder
    /\ \E fin \in BOOLEAN, idle \in Idles :
      \E r \in {make_reverse_circuit(reversed1.circuit_list, fin, idle)} :
        /\ reversed2' = IF r.err = "" THEN Fields(r) @@ [of |-> reversed1.of]
                        ELSE reversed2
        /\ last' = [op |-> "reverse_again", args |-> [fin |-> fin, idle |-> idle],
                    pre |-> Fields(Self), err |-> r.err, ret |-> 0, trace |-> r.trace]
        /\ UNCHANGED <<times, circuit_list, gates, save_flag, reversed1, fresh,
                       history>>

\* builder.add_qasm([line], qubits_first=qubits_first) for the line of a
\* gate.
AddQasm ==
    /\ Len(history) < MaxCalls
    /\ \E gate_tuple \in QasmTuples, sep \in {" ", ","}, qubits_first \in BOOLEAN :
       \E tokens \in TokensFor(gate_tuple[1]) :
       \E line \in {TextLine(gate_tuple, tokens, sep, qubits_first)} :
       \E r \in {add_qasm(Self, <<line>>, qubits_first, EmptyDict)} :
        Apply("add_qasm",
              [gate_tuple |-> gate_tuple, tokens |-> tokens, line |-> line,
               qubits_first |-> qubits_first],
              r)

\* builder.add_qasm(lines, qubits_first=qubits_first, **params) for a file
\* of lines and defaults.
AddQasmParams ==
    /\ Len(history) < MaxCalls
    /\ \E sep \in {" ", ","}, qubits_first \in BOOLEAN, params \in Defaults :
       \E file \in Files(sep, qubits_first) :
       \E r \in {add_qasm(Self, [i \in DOMAIN file |-> file[i].line], qubits_first,
                          params)} :
        Apply("add_qasm",
              [file |-> file, qubits_first |-> qubits_first, params |-> params],
              r)

\* Circuits are built and finalized.
Next ==
    \/ AddGate
    \/ LtCall
    \/ AddGatesSimultaneous
    \/ AddCircuitList
    \/ Finalize

Spec == Init /\ [][Next]_vars

\* A circuit is built, then reversed, and the reversed circuit reversed
\* again.  make_reverse_circuit leaves the builder it is called on as it
\* is, so the calls made on that builder afterwards are left out.
NextRev ==
    \/ reversed1 = NoBuilder /\ AddGate
    \/ MakeReverse
    \/ ReverseAgain

SpecRev == Init /\ [][NextRev]_vars

\* fresh = Builder(...) with the catalogue and the binding table of the
\* builder; fresh.add_circuit_list(builder.circuit_list).  of is the log
\* that was replayed.
Replay ==
    /\ fresh = NoBuilder
    /\ history # <<>>
    /\ \E r \in {add_circuit_list(NewCircuit, circuit_list, <<>>)} :
        /\ fresh' = Fields(r) @@ [of |-> circuit_list, err |-> r.err]
        /\ last' = [op |-> "replay", args |-> EmptyDict, pre |-> Fields(Self),
                    err |-> r.err, ret |-> r.ret, trace |-> r.trace]
        /\ UNCHANGED <<times, circuit_list, gates, save_flag, reversed1, reversed2,
                       history>>

\* A circuit is built, and its log replayed into a fresh builder.
NextReplay ==
    \/ fresh = NoBuilder /\ AddGate
    \/ fresh = NoBuilder /\ LtCall
    \/ fresh = NoBuilder /\ AddGatesSimultaneous
    \/ fresh = NoBuilder /\ AddCircuitList
    \/ Replay

SpecReplay == Init /\ [][NextReplay]_vars

\* A circuit is built from gate calls and from lines of text.
NextQasm ==
    \/ AddGate
    \/ AddQasm

SpecQasm == Init /\ [][NextQasm]_vars

\* A circuit is built from gate calls and from files imported with defaults.
NextQasmParams ==
    \/ AddGate
    \/ AddQasmParams

SpecQasmParams == Init /\ [][NextQasmParams]_vars

---------------------------------------------------------------------------
(* What the calls leave behind, read from last (the call just made, with   *)
(* the builder's fields before it) and from history.                       *)

\* The add_gate invocations the last call made, at any depth.
GateEvents == {i \in DOMAIN last.trace : last.trace[i].kind = "add_gate"}

\* The clock synchronisations the last call made.
SyncEvents == {i \in DOMAIN last.trace : last.trace[i].kind = "sync"}

\* The last call was an add_gate given an explicit time.
LastHasExplicitTime ==
    last.op = "add_gate" /\ "time" \in DOMAIN last.args.kwargs

\* The last call was an add_gate of gate_tuple without an explicit time.
LastIsPlain(gate_tuple) ==
    /\ last.op = "add_gate"
    /\ last.args.gate_tuple = gate_tuple
    /\ "time" \notin DOMAIN last.args.kwargs

\* The operations the last call appended to the circuit.
NewGates == SubSeq(gates, Len(last.pre.gates) + 1, Len(gates))

\* The offset of a binding: its exec_time, or else half its gate_time.
Offset(gate_tuple) ==
    LET builder_args == gate_set[gate_tuple].builder_args
    IN  IF "exec_time" \in DOMAIN builder_args THEN builder_args.exec_time
        ELSE builder_args.gate_time \div 2

\* The largest of the clocks tms over the qubits of gate_tuple.
LatestClock(tms, gate_tuple) ==
    MaxOf({tms[gate_tuple[i]] : i \in 2..Len(gate_tuple)})

\* The handlers that hand their time to the engine themselves.
EngineFunctions == {"RotateX", "rotate_y", "insert_CZ"}

\* C1: a call of add_gate, add_circuit_list or add_gates_simultaneous that
\* is given no explicit time leaves no clock smaller than it found it, and
\* neither does any step of it (a nested add_gate, a group's
\* synchronisation).
C1_ClocksNonDecreasing ==
    (last.op \in {"add_gate", "add_circuit_list", "add_gates_simultaneous"}
     /\ ~LastHasExplicitTime)
        => /\ \A q \in DOMAIN times : times[q] >= last.pre.times[q]
           /\ \A i \in DOMAIN last.trace : \A q \in DOMAIN times :
                 last.trace[i].timesOut[q] >= last.trace[i].timesIn[q]

\* A group is added to qubits whose clocks have advanced, and advances them.
C1_Witness ==
    /\ last.op = "add_gates_simultaneous"
    /\ last.err = ""
    /\ \E q \in DOMAIN times : last.pre.times[q] > 0
    /\ \E q \in DOMAIN times : times[q] > last.pre.times[q]

\* The qubits of gate_tuple have clocks.
HasClocks(gate_tuple) == \A i \in 2..Len(gate_tuple) : gate_tuple[i] \in DOMAIN times

OnlyPlainCalls(gate_tuple) ==
    /\ history # <<>>
    /\ \A i \in DOMAIN history :
          /\ history[i].op = "add_gate"
          /\ history[i].args.gate_tuple = gate_tuple
          /\ "time" \notin DOMAIN history[i].args.kwargs

\* The bindings of engine gates to a single qubit that has a clock, without
\* exec_time.
CentredBindings ==
    {gate_tuple \in DOMAIN gate_set :
        /\ Len(gate_tuple) = 2
        /\ gate_tuple[2] \in DOMAIN times
        /\ "exec_time" \notin DOMAIN gate_set[gate_tuple].builder_args
        /\ gate_tuple[1] \in DOMAIN gate_dic
        /\ gate_dic[gate_tuple[1]].function \in EngineFunctions}

\* C3: on a fresh circuit, n consecutive add_gate calls of a single-qubit
\* gate of duration d without exec_time fire at d/2, d + d/2, ...,
\* (n-1)d + d/2 and leave the qubit's clock at n*d.
C3_ConsecutiveGates ==
    \A gate_tuple \in CentredBindings :
        OnlyPlainCalls(gate_tuple) =>
            LET d == gate_set[gate_tuple].builder_args.gate_time
                n == Len(history)
            IN  /\ times[gate_tuple[2]] = n * d
                /\ Len(gates) = n
                /\ \A i \in 1..n : gates[i].time = (i - 1) * d + (d \div 2)

\* The same gate has been added twice to the same qubit.
C3_Witness ==
    /\ OnlyPlainCalls(<<"RX", "a">>)
    /\ Len(history) = 2
    /\ gates[2].time = 3
    /\ times["a"] = 4

\* C4: an add_gate given an explicit time puts every operation it adds at
\* that time and leaves every clock as it was.
C4_ExplicitTimeVerbatim ==
    (LastHasExplicitTime /\ last.err = "")
        => /\ times = last.pre.times
           /\ \A i \in DOMAIN NewGates :
                 NewGates[i].time = last.args.kwargs.time.n

\* The gates whose handler expands them into other gates.
IsComposite(gate_name) ==
    /\ gate_name \in DOMAIN gate_dic
    /\ gate_dic[gate_name].function \in {"X_gate", "CNOT_from_CZ"}

RECURSIVE TopLevelSum(_)
\* The number of top-level gate calls made by the calls of h.
TopLevelSum(h) ==
    IF h = <<>> THEN 0 ELSE h[1].top + TopLevelSum(Tail(h))

\* C5: a top-level add_gate of a composite gate makes the log exactly one
\* entry longer, its nested add_gate calls append nothing, and when every
\* call so far has completed the log is as long as the number of top-level
\* gate calls made.
C5_CompositeLogsOnce ==
    /\ \A i \in GateEvents :
          LET e == last.trace[i]
          IN  /\ e.depth > 0 => e.lenOut = e.lenIn
              /\ (e.depth = 0 /\ e.err = "") => e.lenOut = e.lenIn + 1
    /\ (/\ last.op = "add_gate"
        /\ last.args.gate_tuple \in DOMAIN gate_set
        /\ IsComposite(last.args.gate_tuple[1]))
          => Len(circuit_list) = Len(last.pre.circuit_list) + 1
    /\ (\A i \in DOMAIN history : history[i].err = "")
          => Len(circuit_list) = TopLevelSum(history)

\* A composite gate has been added after another call: four add_gate
\* invocations, one entry.
C5_Witness ==
    /\ LastIsPlain(<<"CNOT", "a", "b">>)
    /\ last.err = ""
    /\ Cardinality(GateEvents) = 4
    /\ Len(last.pre.circuit_list) = 1
    /\ Len(circuit_list) = 2

\* C6: every add_gate invocation ends with save_flag as it found it, whether
\* it returns or raises; an error raised at any depth is the error of the
\* call; between calls the flag is true; and an add_gate that completes
\* after a failed call is logged.
C6_FlagRestored ==
    /\ save_flag = TRUE
    /\ \A i \in GateEvents :
          LET e == last.trace[i]
          IN  /\ e.flagOut = e.flagIn
              /\ e.err # "" => last.err = e.err
    /\ (/\ Len(history) >= 2
        /\ history[Len(history) - 1].err # ""
        /\ last.op = "add_gate"
        /\ last.err = "")
          => /\ Len(circuit_list) = Len(last.pre.circuit_list) + 1
             /\ circuit_list[Len(circuit_list)][1] = Str(last.args.gate_tuple[1])

\* A composite gate failed in a nested add_gate, and the next add_gate
\* completed.
C6_Witness ==
    /\ Len(history) = 2
    /\ history[1].op = "add_gate"
    /\ history[1].args.gate_tuple = <<"CNOT", "c", "b">>
    /\ history[1].err = "KeyError"
    /\ last.op = "add_gate"
    /\ last.err = ""
    /\ Len(circuit_list) = 2

\* The groups the last call handed to add_gates_simultaneous, in order: the
\* group itself, or the items of a circuit list that are groups.
GroupsGiven ==
    CASE last.op = "add_gates_simultaneous" -> <<last.args.group>>
      [] last.op = "add_circuit_list" ->
            SelectSeq(last.args.circuit, LAMBDA item : item[1].t = "tuple")
      [] OTHER -> <<>>

\* The qubits a group refers to: the fields after the gate name, as many as
\* the gate has qubits, of each of its descriptions.
QubitsReferenced(group) ==
    UNION {{group[i].items[j].s :
               j \in 2..(1 + gate_dic[group[i].items[1].s].num_qubits)}
           : i \in DOMAIN group}

\* The position in last.trace of the k-th synchronisation.
SyncAt(k) ==
    CHOOSE i \in SyncEvents : Cardinality({j \in SyncEvents : j <= i}) = k

\* C7: add_gates_simultaneous first sets the clock of every qubit its group
\* refers to to the largest of those qubits' clocks and leaves the other
\* clocks alone; the first gate of the group is dispatched from the clocks
\* so set.
C7_GroupSync ==
    \A k \in 1..Cardinality(SyncEvents) :
        LET i == SyncAt(k)
            e == last.trace[i]
            qubits == QubitsReferenced(GroupsGiven[k])
            common == MaxOf({e.timesIn[q] : q \in qubits})
        IN  /\ k <= Len(GroupsGiven)
            /\ \A q \in DOMAIN times :
                  e.timesOut[q] = IF q \in qubits THEN common ELSE e.timesIn[q]
            /\ (k = 1 /\ last.op = "add_gates_simultaneous")
                  => i = 1 /\ e.timesIn = last.pre.times
            /\ i < Len(last.trace)
                  => /\ last.trace[i + 1].kind = "add_gate"
                     /\ last.trace[i + 1].timesIn = e.timesOut

\* A group over two qubits whose clocks differ has been added.
C7_Witness ==
    /\ last.op = "add_gates_simultaneous"
    /\ SyncEvents # {}
    /\ QubitsReferenced(last.args.group) = {"a", "b"}
    /\ last.trace[1].timesIn["a"] > last.trace[1].timesIn["b"]
    /\ last.trace[1].timesOut["b"] = last.trace[1].timesIn["a"]

\* An entry with the value of its 'angle' parameter negated, if its gate
\* has one.
AngleNegated(entry) ==
    LET gate_name == entry[1].s
        user_kws == gate_dic[gate_name].user_kws
        at == gate_dic[gate_name].num_qubits + 1
    IN  [j \in DOMAIN entry |->
            IF j - at \in DOMAIN user_kws /\ user_kws[j - at] = "angle"
            THEN Num(-entry[j].n) ELSE entry[j]]

\* The log in reverse order, with the angles negated.
ReverseOf(log) ==
    [i \in DOMAIN log |-> AngleNegated(log[Len(log) + 1 - i])]

\* Every call made on the builder so far has completed.
AllCompleted == \A i \in DOMAIN history : history[i].err = ""

\* C8: the builder make_reverse_circuit returns for a circuit built by
\* calls that completed has the log of the original in reverse order, each
\* 'angle' negated, every other field as it was.
C8_ReversedLog ==
    (reversed1 # NoBuilder /\ AllCompleted)
        => reversed1.circuit_list = ReverseOf(reversed1.of)

\* The log holds no entry of a gate with an 'angle' parameter.
NoAngles(log) ==
    \A i \in DOMAIN log :
        \A j \in DOMAIN gate_dic[log[i][1].s].user_kws :
            gate_dic[log[i][1].s].user_kws[j] # "angle"

\* C9: for a circuit of gates without an 'angle' parameter, built by calls
\* that completed, the reverse of its reverse has the log of the circuit,
\* entry for entry.
C9_DoubleReverse ==
    (reversed2 # NoBuilder /\ AllCompleted /\ NoAngles(reversed2.of))
        => reversed2.circuit_list = reversed2.of

\* How often op occurs in ops.
CountOf(ops, op) == Cardinality({i \in DOMAIN ops : ops[i] = op})

\* The end of the range finalize(t_add=p) asks the engine to fill: the
\* largest clock, plus p.
EndTime == MaxOf({last.pre.times[q] : q \in DOMAIN last.pre.times}) + last.args.t_add

\* op is an idle operation the engine added for the range [0, EndTime].
IsBackfill(op) ==
    /\ last.args.idle # "none"
    /\ op.name = "idle"
    /\ op.time = IF last.args.idle = "start" THEN 0 ELSE EndTime

\* C10: finalize(topo_order=False, t_add=p) has idle operations added for
\* the range from 0 to (largest clock) + p, keeps the operations there
\* were, and leaves the operation list in order of non-decreasing time.
C10_Finalize ==
    last.op = "finalize"
        => /\ \A i \in 1..(Len(gates) - 1) : gates[i].time <= gates[i + 1].time
           /\ \A op \in Range(gates) \cup Range(last.pre.gates) :
                 CountOf(gates, op) >= CountOf(last.pre.gates, op)
           /\ \A op \in Range(gates) :
                 CountOf(gates, op) > CountOf(last.pre.gates, op) => IsBackfill(op)
           /\ last.args.idle # "none" => Len(gates) > Len(last.pre.gates)
           /\ times = last.pre.times

\* A circuit whose operations were added out of time order is finalized
\* with t_add = 1, and idle operations are put at the end of the range.
C10_Witness ==
    /\ last.op = "finalize"
    /\ last.args.t_add = 1
    /\ last.args.idle = "end"
    /\ \E i \in 1..(Len(last.pre.gates) - 1) :
          last.pre.gates[i].time > last.pre.gates[i + 1].time
    /\ \E i \in DOMAIN gates : gates[i].name = "idle" /\ gates[i].time = EndTime

\* The last call was an add_gate of a combination the binding table does
\* not have, or of a gate the catalogue does not have.
LastIsUnknown ==
    /\ last.op = "add_gate"
    /\ \/ last.args.gate_tuple \notin DOMAIN gate_set
       \/ last.args.gate_tuple[1] \notin DOMAIN gate_dic

\* C11: an add_gate of a (gate, qubits) combination without a binding, or of
\* a gate name the catalogue does not have, raises, and leaves the log, the
\* clocks, the logging flag and the operation list as they were.
C11_UnknownGateNoEffect ==
    LastIsUnknown
        => /\ last.err = "KeyError"
           /\ circuit_list = last.pre.circuit_list
           /\ times = last.pre.times
           /\ save_flag = last.pre.save_flag
           /\ gates = last.pre.gates

\* A gate that is bound but not in the catalogue is added to a circuit that
\* holds gates already.
C11_Witness ==
    /\ LastIsUnknown
    /\ last.args.gate_tuple = <<"H", "a">>
    /\ last.pre.circuit_list # <<>>
    /\ last.pre.times["a"] > 0

\* The description asks for a handle: it has one field beyond the gate's
\* qubits and parameters, and that field is True.
RequestsHandle(gate_desc) ==
    /\ Len(gate_desc) = 2 + gate_dic[gate_desc[1].s].num_qubits
                          + Len(gate_dic[gate_desc[1].s].user_kws)
    /\ gate_desc[Len(gate_desc)] = Bool(TRUE)

RECURSIVE HandlesRequested(_)
\* The number of descriptions of a circuit list that ask for a handle, the
\* members of its groups included.
HandlesRequested(circuit) ==
    IF circuit = <<>> THEN 0
    ELSE LET item == Head(circuit)
             here == IF item[1].t = "tuple"
                     THEN Cardinality({i \in DOMAIN item : RequestsHandle(item[i].items)})
                     ELSE IF RequestsHandle(item) THEN 1 ELSE 0
         IN  here + HandlesRequested(Tail(circuit))

\* The builder as it was before the last call.
PreBuilder ==
    [times |-> last.pre.times, circuit_list |-> last.pre.circuit_list,
     gates |-> last.pre.gates, save_flag |-> last.pre.save_flag,
     err |-> "", ret |-> 0, depth |-> 0, trace |-> <<>>]

\* C12: add_circuit_list(ds) leaves the log and the clocks that submitting
\* the descriptions of ds one after the other (`builder < d`) leaves, and
\* returns one handle for every description of ds that asks for one, the
\* members of groups included.
C12_CircuitListHandles ==
    (last.op = "add_circuit_list" /\ last.err = "")
        => /\ circuit_list = RunHandler(PreBuilder, last.args.circuit).circuit_list
           /\ times = RunHandler(PreBuilder, last.args.circuit).times
           /\ Len(last.ret) = HandlesRequested(last.args.circuit)

\* The call add_gate(name, qubits, **params) that the line of the last
\* add_qasm stands for, made on the builder as it was.
DirectCall ==
    LET gate_name == last.args.gate_tuple[1]
        user_kws == IF gate_name \in DOMAIN gate_dic
                    THEN gate_dic[gate_name].user_kws ELSE <<>>
    IN  add_gate(PreBuilder, gate_name, Tail(last.args.gate_tuple), Bool(FALSE),
                 [kw \in Range(user_kws) |->
                     last.args.tokens[CHOOSE i \in DOMAIN user_kws : user_kws[i] = kw].value])

\* C13: importing the line of a gate (its name, its qubits and its parameter
\* tokens in the order qubits_first says) leaves the log, the clocks and
\* the operation list that the direct add_gate call leaves, and fails when
\* that call fails.
C13_LineAsDirectCall ==
    last.op = "add_qasm"
        => /\ circuit_list = DirectCall.circuit_list
           /\ times = DirectCall.times
           /\ gates = DirectCall.gates
           /\ save_flag = DirectCall.save_flag
           /\ last.err = DirectCall.err

\* The line 'RX,-12,a' is imported, parameters first, into a circuit that
\* holds gates already.
C13_Witness ==
    /\ last.op = "add_qasm"
    /\ last.err = ""
    /\ last.args.line = <<"R", "X", ",", "-", "1", "2", ",", "a">>
    /\ last.pre.times["a"] > 0
    /\ Len(circuit_list) = 2
    /\ gates[Len(gates)].angle = Num(-12)

\* The last call was an add_gate of a bound and catalogued gate, without an
\* explicit time, and it completed.
LastScheduled ==
    /\ last.op = "add_gate"
    /\ last.err = ""
    /\ "time" \notin DOMAIN last.args.kwargs
    /\ last.args.gate_tuple \in DOMAIN gate_set

\* The qubits of the last add_gate.
LastQubits == {last.args.gate_tuple[i] : i \in 2..Len(last.args.gate_tuple)}

\* The clocks when the handler of the last add_gate returned: those left by
\* the last nested add_gate, or those before the call.
ClocksAfterHandler ==
    IF Len(last.trace) >= 2 THEN last.trace[Len(last.trace) - 1].timesOut
    ELSE last.pre.times

\* C14 as stated: after an add_gate without an explicit time the clock of
\* each of its qubits is max(clock before, firing time + gate_time), the
\* firing time being start + offset.
C14_ClockFromFiringTime ==
    LastScheduled
        => \A q \in LastQubits :
              times[q] = Max2(last.pre.times[q],
                              LatestClock(last.pre.times, last.args.gate_tuple)
                                + Offset(last.args.gate_tuple)
                                + gate_set[last.args.gate_tuple].builder_args.gate_time)

\* C14, amended: after an add_gate without an explicit time the clock of
\* each of its qubits is max(its clock when the handler returned,
\* start + gate_time), start being the largest clock of the call's qubits
\* before the call; the offset plays no part.  No clock of the call's qubits
\* is below start + gate_time.
C14_ClockFromStart ==
    LastScheduled
        => \A q \in LastQubits :
              /\ times[q] = Max2(ClocksAfterHandler[q],
                                 LatestClock(last.pre.times, last.args.gate_tuple)
                                   + gate_set[last.args.gate_tuple].builder_args.gate_time)
              /\ times[q] >= LatestClock(last.pre.times, last.args.gate_tuple)
                               + gate_set[last.args.gate_tuple].builder_args.gate_time

\* A gate with an exec_time is added to a qubit whose clock has advanced:
\* the clock moves by gate_time, not by exec_time + gate_time.
C14_Witness ==
    /\ LastScheduled
    /\ last.args.gate_tuple = <<"RX", "b">>
    /\ last.pre.times["b"] > 0
    /\ times["b"] = last.pre.times["b"] + 4

\* The largest clock, before the last call, of the qubits its group refers to.
SharedStart ==
    MaxOf({last.pre.times[q] : q \in QubitsReferenced(last.args.group)})

\* C15: every gate of a simultaneous group is dispatched at (shared start)
\* + its offset, the shared start being the largest clock of the group's
\* qubits before the group; also when two of the descriptions act on the
\* same qubit.
C15_GroupFiresFromSharedStart ==
    (last.op = "add_gates_simultaneous" /\ last.err = "")
        => \A i \in GateEvents :
              last.trace[i].depth = 0
                 => last.trace[i].fire = SharedStart + Offset(last.trace[i].gate_tuple)

\* The number of fields of the last description beyond its gate's name,
\* qubits and parameters.
ExtraFields ==
    Len(last.args.gate_desc) - 1
        - gate_dic[last.args.gate_desc[1].s].num_qubits
        - Len(gate_dic[last.args.gate_desc[1].s].user_kws)

\* The add_gate call a description stands for when its trailing fields are
\* the given return flag and the given time (NoneV: no time), made on the
\* builder as it was before the last call.
DescribedCall(gate_desc, return_flag, time) ==
    LET gate_name == gate_desc[1].s
        num_qubits == gate_dic[gate_name].num_qubits
        user_kws == gate_dic[gate_name].user_kws
        given == [kw \in Range(user_kws) |->
                    gate_desc[1 + num_qubits
                              + (CHOOSE i \in DOMAIN user_kws : user_kws[i] = kw)]]
    IN  add_gate(PreBuilder, gate_name,
                 [i \in 1..num_qubits |-> gate_desc[i + 1].s],
                 return_flag,
                 IF time = NoneV THEN given ELSE Merge(given, [time |-> time]))

\* The builder is as the call left it, and the call's error and result are
\* those of the last call.
SameOutcome(call) ==
    /\ circuit_list = call.circuit_list
    /\ times = call.times
    /\ gates = call.gates
    /\ last.err = call.err
    /\ last.ret = call.ret

\* C16: a description with one field beyond qubits and parameters is
\* dispatched with that field as return flag when it is a boolean, and
\* otherwise as add_gate with that field as explicit time: the operation
\* is put at that time and no clock moves, whatever the value, 0 included.
C16_OneTrailingField ==
    (last.op = "lt" /\ ExtraFields = 1)
        => LET gate_desc == last.args.gate_desc
               field == gate_desc[Len(gate_desc)]
           IN  IF field.t = "bool"
               THEN SameOutcome(DescribedCall(gate_desc, field, NoneV))
               ELSE /\ SameOutcome(DescribedCall(gate_desc, Bool(FALSE), field))
                    /\ times = last.pre.times
                    /\ \A i \in DOMAIN NewGates : NewGates[i].time = field.n

\* C17: a description with two fields beyond qubits and parameters, a
\* numeric time and then a boolean return flag, is accepted and dispatched
\* as add_gate with that explicit time and that return flag.
C17_TwoTrailingFields ==
    (/\ last.op = "lt"
     /\ ExtraFields = 2
     /\ last.args.gate_desc[Len(last.args.gate_desc) - 1].t = "num"
     /\ last.args.gate_desc[Len(last.args.gate_desc)].t = "bool")
        => /\ last.err = ""
           /\ SameOutcome(DescribedCall(last.args.gate_desc,
                                        last.args.gate_desc[Len(last.args.gate_desc)],
                                        last.args.gate_desc[Len(last.args.gate_desc) - 1]))

\* The entry the caller's arguments of the last add_gate describe: the gate,
\* its qubits, the values the caller gave for the user parameters of the
\* template, and the return flag when one was asked for.
CallerEntry ==
    LET gate_name == last.args.gate_tuple[1]
        user_kws == gate_dic[gate_name].user_kws
    IN  LogEntry(gate_name, Tail(last.args.gate_tuple),
                 [i \in DOMAIN user_kws |-> last.args.kwargs[user_kws[i]]],
                 last.args.return_flag)

\* C18: the entry a top-level add_gate appends to the log is the gate name,
\* the qubits in call order, the values the caller supplied for the user
\* parameters in template order, and the return flag only when one was
\* requested; no value of it comes from the binding's circuit_args.
C18_LogEntryFromCaller ==
    (/\ last.op = "add_gate"
     /\ Len(circuit_list) > Len(last.pre.circuit_list))
        => /\ Len(circuit_list) = Len(last.pre.circuit_list) + 1
           /\ Range(gate_dic[last.args.gate_tuple[1]].user_kws)
                 \subseteq DOMAIN last.args.kwargs
           /\ circuit_list[Len(circuit_list)] = CallerEntry

\* C19: the log of a builder whose calls all completed, replayed through
\* add_circuit_list into a fresh builder with the same catalogue and binding
\* table, is accepted and leaves a log equal to it, entries with a boolean
\* or a positive integer return flag included.
C19_ReplayReproducesLog ==
    (fresh # NoBuilder /\ AllCompleted)
        => /\ fresh.err = ""
           /\ fresh.circuit_list = fresh.of

\* Every call made so far was an add_gate without an explicit time.
OnlyScheduledCalls ==
    \A k \in DOMAIN history :
        /\ history[k].op = "add_gate"
        /\ "time" \notin DOMAIN history[k].args.kwargs

\* Calls i and j of the history completed and have a qubit in common.
CommonQubit(i, j) ==
    /\ history[i].err = ""
    /\ history[j].err = ""
    /\ \E m \in 2..Len(history[i].args.gate_tuple) :
       \E n \in 2..Len(history[j].args.gate_tuple) :
          history[i].args.gate_tuple[m] = history[j].args.gate_tuple[n]

\* The binding of call i fires the gate inside the window it allots to it.
FiresInWindow(i) ==
    Offset(history[i].args.gate_tuple)
        <= gate_set[history[i].args.gate_tuple].builder_args.gate_time

IsClassical(q) == qubit_dic[q].classical

\* The last call was an add_gate without an explicit time, or a group, of
\* catalogued and bound gates, and it names a classical bit among its qubits.
LastNamesClassical ==
    \/ /\ last.op = "add_gate"
       /\ last.args.gate_tuple \in DOMAIN gate_set
       /\ "time" \notin DOMAIN last.args.kwargs
       /\ \E q \in LastQubits : q \in DOMAIN qubit_dic /\ IsClassical(q)
    \/ /\ last.op = "add_gates_simultaneous"
       /\ \E q \in QubitsReferenced(last.args.group) :
             q \in DOMAIN qubit_dic /\ IsClassical(q)

\* C21 as stated: right after the circuit is created every declared qubit,
\* the classical ones included, has a clock and the clock is 0, and a gate
\* or a group that names a declared qubit finds the clock.
C21_EveryQubitClocked ==
    /\ history = <<>> => \A q \in DOMAIN qubit_dic : q \in DOMAIN times /\ times[q] = 0
    /\ LastNamesClassical => last.err # "KeyError"

\* C21, for the qubits that are not classical: right after the circuit is
\* created exactly the declared qubits that are not flagged as classical
\* have a clock, and it is 0; no call gives a classical bit a clock, and a
\* gate without an explicit time or a group that names a classical bit
\* among its qubits raises KeyError and leaves the builder as it was.
C21_QuantumQubitsClocked ==
    /\ DOMAIN times = {q \in DOMAIN qubit_dic : ~IsClassical(q)}
    /\ history = <<>> => \A q \in DOMAIN times : times[q] = 0
    /\ LastNamesClassical
          => /\ last.err = "KeyError"
             /\ Fields(Self) = last.pre

\* A gate on the classical bit was asked for on a fresh circuit.
C21_Witness ==
    /\ Len(history) = 1
    /\ last.op = "add_gate"
    /\ last.args.gate_tuple = <<"RX", "m">>
    /\ last.err = "KeyError"
    /\ "m" \notin DOMAIN times

RECURSIVE MergedCalls(_, _, _)
\* add_gate(name, qubits, **{**params, **values}) for every line of a file
\* in turn, up to the first call that raises.
MergedCalls(b, file, params) ==
    IF file = <<>> \/ b.err # "" THEN b
    ELSE MergedCalls(add_gate(b, Head(file).gate_name, Head(file).qubit_list,
                              Bool(FALSE), Merge(params, Head(file).values)),
                     Tail(file), params)

\* The last call imported a file with defaults.
LastImportedFile == last.op = "add_qasm" /\ "params" \in DOMAIN last.args

\* C22: an import with defaults does what add_gate calls do that are given,
\* for every line, the measure lines included, the defaults as they were
\* supplied with the values of the line put over them.
C22_DefaultsInEveryLine ==
    LastImportedFile
        => LET merged == MergedCalls(PreBuilder, last.args.file, last.args.params)
           IN  /\ circuit_list = merged.circuit_list
               /\ times = merged.times
               /\ gates = merged.gates
               /\ last.err = merged.err

\* The last call was an add_gate that got as far as its handler: the
\* combination is bound, the gate is in the catalogue, the merged keywords
\* hold every user parameter, and the clocks of the qubits are found.
ReachedHandler ==
    /\ last.op = "add_gate"
    /\ last.args.gate_tuple \in DOMAIN gate_set
    /\ last.args.gate_tuple[1] \in DOMAIN gate_dic
    /\ Range(gate_dic[last.args.gate_tuple[1]].user_kws)
          \subseteq DOMAIN Merge(gate_set[last.args.gate_tuple].circuit_args,
                                 last.args.kwargs)
    /\ \/ "time" \in DOMAIN last.args.kwargs
       \/ LastQubits \subseteq DOMAIN last.pre.times

\* The handler of the last add_gate raised (IndexError is what looking up
\* the handle raises, after the handler and the clock update).
HandlerRaised == ReachedHandler /\ last.err \notin {"", "IndexError"}

\* C23: a top-level add_gate whose handler raises leaves the log as it was
\* with one entry added, the entry of the gate and its qubits, and the
\* clocks as the handler left them; an add_gate of an unbound combination
\* or of a gate the catalogue does not have leaves the log as it was.
C23_EntryKeptOnFailure ==
    /\ HandlerRaised
          => /\ Len(circuit_list) = Len(last.pre.circuit_list) + 1
             /\ SubSeq(circuit_list, 1, Len(last.pre.circuit_list))
                   = last.pre.circuit_list
             /\ SubSeq(circuit_list[Len(circuit_list)], 1, Len(last.args.gate_tuple))
                   = [i \in DOMAIN last.args.gate_tuple |-> Str(last.args.gate_tuple[i])]
             /\ times = ClocksAfterHandler
    /\ LastIsUnknown
          => /\ last.err = "KeyError"
             /\ circuit_list = last.pre.circuit_list

\* The handler of a CZ raised, after it had added its phase gate, on a
\* circuit that held a gate already: the log has the entry of the CZ, and no
\* clock has moved.
C23_Witness ==
    /\ HandlerRaised
    /\ last.args.gate_tuple = <<"CZ", "b", "c">>
    /\ last.err = "ValueError"
    /\ Len(circuit_list) = 2
    /\ circuit_list[2][1] = Str("CZ")
    /\ Len(gates) = Len(last.pre.gates) + 1
    /\ times = last.pre.times

====
